---- MODULE Spec2Model ----
(***************************************************************************)
(* Edge-triggered interrupt dispatch of the Jakestering GPIO library       *)
(* (jakestering.c): the per-pin registry, jakestering_ISR, interrupt_init, *)
(* the dispatch thread interrupt_handler with wait_for_interrupt, and the  *)
(* teardown wait_for_interrupt_to_close.  The kernel side (descriptor      *)
(* table, line-event queues, poll/read results, thread cancellation) is    *)
(* modelled as the environment those calls run against.                    *)
(***************************************************************************)
EXTENDS Integers, Sequences, FiniteSets, TLC

\* ------------------------------------------------------------------ bounds
MaxPin == 1          \* pins 0..MaxPin are exercised by the callers
MaxCallers == 2      \* application threads calling the API concurrently
MaxOps == 3          \* API calls one application thread makes in a row
MaxThreads == 2      \* dispatch threads created in one run
MaxEvents == 3       \* records the environment produces in a run of one call
SeqEvents == 1       \* records the environment produces in a run of several calls
MaxQueue == 2        \* records pending on one descriptor at a time
MaxFaults == 1       \* system calls that fail for outside reasons in one run
PairOps == 2         \* registrations one thread makes in a row on any pins

\* ------------------------------------------------------- program constants
NumPins == 32        \* size of the per-pin tables
EventSize == 16      \* sizeof(struct gpioevent_data)
RisingId == 1        \* the id the code compares against (event_data.id == 1)
FallingId == 2       \* GPIOEVENT_EVENT_FALLING_EDGE

NULL == "NULL"
Handler == "test_handler"
Modes == {"FALLING_EDGE", "RISING_EDGE", "BOTH_EDGE"}

Pins == 0..MaxPin
BadPin == NumPins                 \* first index past the tables
Callers == 1..MaxCallers
Threads == 1..MaxThreads
MaxFd == 3 + MaxCallers + MaxPin + 1
FDs == 0..MaxFd

VARIABLES
  pin_pass,             \* static volatile int pin_pass
  pin_mutex,            \* 0 = unlocked, else the caller holding it
  chip_FD,              \* static int chip_FD
  pin_FDs,              \* static int pin_FDs[32]
  isr_functions,        \* static void (*isr_functions[32])(void)
  isr_threads,          \* static pthread_t isr_threads[32]; 0 = never set
  isr_modes,            \* static int isr_modes[32]
  isr_function_called,  \* static int isr_function_called[32]
  cl,                   \* the calling threads: position, arguments, results
  th,                   \* the dispatch threads: position and locals
  fds,                  \* the process's descriptor table, with event queues
  env                   \* run-wide counters and observations

vars == <<pin_pass, pin_mutex, chip_FD, pin_FDs, isr_functions, isr_threads,
          isr_modes, isr_function_called, cl, th, fds, env>>

registry == <<pin_FDs, isr_functions, isr_threads, isr_modes, isr_function_called>>

\* ---------------------------------------------------------------- helpers
FreeFd == [kind |-> "free", pin |-> -1, mode |-> "none", q |-> <<>>]
StdFd  == [kind |-> "std",  pin |-> -1, mode |-> "none", q |-> <<>>]
ChipFd == [kind |-> "chip", pin |-> -1, mode |-> "none", q |-> <<>>]
LineFd(p, m) == [kind |-> "line", pin |-> p, mode |-> m, q |-> <<>>]

\* open()/ioctl() hand out the lowest descriptor number not in use
NewFd == CHOOSE f \in FDs : fds[f].kind = "free"
                            /\ \A g \in FDs : g < f => fds[g].kind # "free"

LineHeld(p) == \E f \in FDs : fds[f].kind = "line" /\ fds[f].pin = p

\* a store to / load from a per-pin table; an index past the table touches
\* whatever memory follows it
Store(arr, p, v) == IF p \in DOMAIN arr THEN [arr EXCEPT ![p] = v] ELSE arr
Load(arr, p, garbage) == IF p \in DOMAIN arr THEN {arr[p]} ELSE garbage

NoCaller == [pc |-> "idle", pin |-> -1, mode |-> "none", init |-> 0,
             last |-> "none", ret |-> 0, started |-> 0, calls |-> 0]
NoThread == [pc |-> "none", pin |-> -2, fd |-> -2, ret |-> 0, cancel |-> FALSE,
             forPin |-> -2, nread |-> 0, ncall |-> 0, lastRead |-> "none",
             lastId |-> 0, fired |-> FALSE, clean |-> FALSE]

\* a teardown or a further registration of pin p ends the registration the
\* pin's threads were started for (th.clean records that none has happened)
Disturb(base, p) ==
  [t \in Threads |-> IF base[t].forPin = p THEN [base[t] EXCEPT !.clean = FALSE]
                     ELSE base[t]]

\* a thread that has ended: only its identity is kept
Ended(r, how) == [NoThread EXCEPT !.pc = how, !.pin = r.pin, !.forPin = r.forPin]

Live(t) == th[t].pc \notin {"none", "done", "cancelled"}

\* static initialisers: "= {-1}" and "= {1}" set element 0 only, the rest
\* of each table is zero
InitFDs(p) == IF p = 0 THEN -1 ELSE 0
InitCalled(p) == IF p = 0 THEN 1 ELSE 0

\* the pin an application thread registers when each thread has its own
OwnPin(c) == (c - 1) % (MaxPin + 1)

\* a run: which application threads call the API, how many calls each of
\* them makes and whether teardown is among them, how many records the
\* environment produces, how many system calls fail, and the arguments used.
\* MainRun is main.c (one registration, then events); SeqRun is one thread
\* making several calls on one pin while events arrive; FaultRun is the
\* same with failing system calls instead of events; ConcRun is several
\* threads each registering its own pin; BadRun is one call with a pin past
\* the tables; PairRun is one thread registering pins one after the other
\* while events arrive.
MainRun == [callers |-> {1}, each |-> 1, close |-> FALSE, own |-> FALSE,
            events |-> MaxEvents, faults |-> MaxFaults, pins |-> Pins,
            modes |-> Modes]
SeqRun(p) == [callers |-> {1}, each |-> MaxOps, close |-> TRUE,
              own |-> FALSE, events |-> SeqEvents, faults |-> 0,
              pins |-> {p}, modes |-> {"BOTH_EDGE"}]
FaultRun(p) == [callers |-> {1}, each |-> MaxOps, close |-> TRUE,
                own |-> FALSE, events |-> 0, faults |-> MaxFaults,
                pins |-> {p}, modes |-> {"BOTH_EDGE"}]
ConcRun == [callers |-> Callers, each |-> 1, close |-> FALSE, own |-> TRUE,
            events |-> 0, faults |-> MaxFaults, pins |-> Pins,
            modes |-> {"RISING_EDGE"}]
BadRun == [callers |-> {1}, each |-> 1, close |-> FALSE, own |-> FALSE,
           events |-> 1, faults |-> 0, pins |-> {BadPin},
           modes |-> {"BOTH_EDGE"}]
PairRun == [callers |-> {1}, each |-> PairOps, close |-> FALSE, own |-> FALSE,
            events |-> SeqEvents, faults |-> 0, pins |-> Pins,
            modes |-> {"RISING_EDGE"}]
Runs == {MainRun, ConcRun, BadRun, PairRun} \cup {SeqRun(p) : p \in Pins} \cup {FaultRun(p) : p \in Pins}

InitWith(run) ==
  /\ pin_pass = -1
  /\ pin_mutex = 0
  /\ chip_FD = -1
  /\ pin_FDs = [p \in Pins |-> InitFDs(p)]
  /\ isr_functions = [p \in Pins |-> NULL]
  /\ isr_threads = [p \in Pins |-> 0]
  /\ isr_modes = [p \in Pins |-> "none"]
  /\ isr_function_called = [p \in Pins |-> InitCalled(p)]
  /\ cl = [c \in Callers |-> NoCaller]
  /\ th = [t \in Threads |-> NoThread]
  /\ fds = [f \in FDs |-> IF f <= 2 THEN StdFd ELSE FreeFd]
  /\ env = [events |-> 0, crashed |-> FALSE, oob |-> FALSE,
            chipOpens |-> 0, faults |-> 0, run |-> run, cancel |-> "none",
            hist |-> [p \in Pins |-> "never"]]

Init == \E run \in Runs : InitWith(run)

\* what the application has done with a pin so far: "never" registered,
\* "registering" (inside jakestering_ISR), "registered" (the call returned
\* with the descriptor obtained and the thread started), "closed" (torn down
\* after that), or "tangled" (a registration that failed part-way, a second
\* registration without teardown, a teardown during a registration)
AfterRegister(h, p) ==
  IF p \notin DOMAIN h THEN "never"
  ELSE IF h[p] \in {"never", "closed"} THEN "registering" ELSE "tangled"
AfterReturn(h, p, ok) ==
  IF p \notin DOMAIN h THEN "never"
  ELSE IF h[p] = "registering" THEN (IF ok THEN "registered" ELSE "tangled")
  ELSE h[p]
AfterClose(h, p) ==
  IF p \notin DOMAIN h THEN "never"
  ELSE IF h[p] \in {"registered", "closed"} THEN "closed"
  ELSE IF h[p] = "never" THEN "never" ELSE "tangled"

\* thread ids not yet used nor due to a registration already under way
ThreadsLeft ==
  Cardinality({t \in Threads : th[t].pc = "none"})
  - Cardinality({c \in Callers : cl[c].pc \in {"init_chip", "init_open",
                                               "init_line", "isr_lock", "isr_create"}})

\* a system call may still fail for a reason outside the program (no
\* device, no memory, a signal)
MayFail == env.faults < env.run.faults

\* an application thread may start another API call
MayCall(c) ==
  /\ c \in env.run.callers
  /\ cl[c].pc = "idle"
  /\ cl[c].calls < env.run.each

Running == ~env.crashed

\* ------------------------------------------------- jakestering_ISR (caller)
\* entry and the three registry stores made before any hardware is touched
ISRStore(c, p, m) ==
  /\ Running
  /\ MayCall(c)
  /\ p \in env.run.pins
  /\ (env.run.own => p = OwnPin(c))
  /\ m \in env.run.modes
  /\ ThreadsLeft > 0
  /\ isr_functions' = Store(isr_functions, p, Handler)
  /\ isr_modes' = Store(isr_modes, p, m)
  /\ isr_function_called' = Store(isr_function_called, p, 1)
  /\ cl' = [cl EXCEPT ![c] = [pc |-> "init_chip", pin |-> p, mode |-> m,
                              init |-> 0, last |-> "none", ret |-> 0,
                              started |-> 0, calls |-> cl[c].calls + 1]]
  /\ env' = [env EXCEPT !.oob = @ \/ p \notin Pins,
                        !.hist = Store(@, p, AfterRegister(@, p))]
  /\ th' = Disturb(th, p)
  /\ UNCHANGED <<pin_pass, pin_mutex, chip_FD, pin_FDs, isr_threads, fds>>

\* interrupt_init: "if ( chip_FD < 0 )"
InitChip(c) ==
  /\ Running
  /\ cl[c].pc = "init_chip"
  /\ cl' = [cl EXCEPT ![c].pc = IF chip_FD < 0 THEN "init_open" ELSE "init_line"]
  /\ UNCHANGED <<pin_pass, pin_mutex, chip_FD, registry, th, fds, env>>

\* interrupt_init: chip_FD = open( gpio_chip ); a failure returns -1
InitOpen(c) ==
  /\ Running
  /\ cl[c].pc = "init_open"
  /\ \/ /\ chip_FD' = NewFd
        /\ fds' = [fds EXCEPT ![NewFd] = ChipFd]
        /\ env' = [env EXCEPT !.chipOpens = @ + 1]
        /\ cl' = [cl EXCEPT ![c].pc = "init_line"]
     \/ /\ MayFail
        /\ chip_FD' = -1
        /\ cl' = [cl EXCEPT ![c].pc = "isr_lock", ![c].init = -1]
        /\ env' = [env EXCEPT !.faults = @ + 1]
        /\ UNCHANGED fds
  /\ UNCHANGED <<pin_pass, pin_mutex, registry, th>>

\* interrupt_init: the line-event ioctl, the store of the new descriptor
\* into pin_FDs and the fcntl that makes it non-blocking
InitLine(c) ==
  /\ Running
  /\ cl[c].pc = "init_line"
  /\ \/ /\ LineHeld(cl[c].pin)            \* the line is already requested
        /\ cl' = [cl EXCEPT ![c].pc = "isr_lock", ![c].init = -1]
        /\ UNCHANGED <<pin_FDs, fds, env>>
     \/ /\ ~LineHeld(cl[c].pin)           \* the ioctl fails for another reason
        /\ MayFail
        /\ cl' = [cl EXCEPT ![c].pc = "isr_lock", ![c].init = -1]
        /\ env' = [env EXCEPT !.faults = @ + 1]
        /\ UNCHANGED <<pin_FDs, fds>>
     \/ /\ ~LineHeld(cl[c].pin)
        /\ fds' = [fds EXCEPT ![NewFd] = LineFd(cl[c].pin, cl[c].mode)]
        /\ pin_FDs' = Store(pin_FDs, cl[c].pin, NewFd)
        /\ \E r \in {0} \cup (IF MayFail THEN {-1} ELSE {}) :
             /\ cl' = [cl EXCEPT ![c].pc = "isr_lock", ![c].init = r]
             /\ env' = [env EXCEPT !.oob = @ \/ cl[c].pin \notin Pins,
                                   !.faults = IF r = 0 THEN @ ELSE @ + 1]
  /\ UNCHANGED <<pin_pass, pin_mutex, chip_FD, isr_functions, isr_threads,
                 isr_modes, isr_function_called, th>>

\* a caller that does not wait for the mutex
MutexFree_NoLock == TRUE

\* pthread_mutex_lock( &pin_mutex )
MutexFree == pin_mutex = 0

ISRLock(c) ==
  /\ Running
  /\ cl[c].pc = "isr_lock"
  /\ MutexFree
  /\ pin_mutex' = c
  /\ cl' = [cl EXCEPT ![c].pc = "isr_create"]
  /\ UNCHANGED <<pin_pass, chip_FD, registry, th, fds, env>>

NewThread == CHOOSE t \in Threads : th[t].pc = "none"
                                    /\ \A u \in Threads : u < t => th[u].pc # "none"

\* pin_pass = pin; pthread_create( &isr_threads[pin], ..., interrupt_handler )
ISRCreate(c) ==
  /\ Running
  /\ cl[c].pc = "isr_create"
  /\ pin_pass' = cl[c].pin
  /\ \/ /\ th' = [th EXCEPT ![NewThread] =
                     [NoThread EXCEPT !.pc = "capture", !.forPin = cl[c].pin,
                                      !.clean = (cl[c].init = 0 /\ cl[c].pin \in Pins
                                                 /\ env.hist[cl[c].pin] = "registering")]]
        /\ isr_threads' = Store(isr_threads, cl[c].pin, NewThread)
        /\ env' = [env EXCEPT !.oob = @ \/ cl[c].pin \notin Pins]
        /\ cl' = [cl EXCEPT ![c].pc = "isr_wait", ![c].started = NewThread]
     \/ /\ MayFail
        /\ cl' = [cl EXCEPT ![c].pc = "isr_unlock"]
        /\ env' = [env EXCEPT !.faults = @ + 1]
        /\ UNCHANGED <<th, isr_threads>>
  /\ UNCHANGED <<pin_mutex, chip_FD, pin_FDs, isr_functions, isr_modes,
                 isr_function_called, fds>>

\* while ( pin_pass != -1 ) delay(1);
ISRWait(c) ==
  /\ Running
  /\ cl[c].pc = "isr_wait"
  /\ pin_pass = -1
  /\ cl' = [cl EXCEPT ![c].pc = "isr_unlock"]
  /\ UNCHANGED <<pin_pass, pin_mutex, chip_FD, registry, th, fds, env>>

\* pthread_mutex_unlock( &pin_mutex ); return 0;
ISRReturn(c) ==
  /\ Running
  /\ cl[c].pc = "isr_unlock"
  /\ pin_mutex' = 0
  /\ cl' = [cl EXCEPT ![c].pc = "idle", ![c].last = "isr", ![c].ret = 0,
                       ![c].mode = "none"]
  /\ env' = [env EXCEPT !.hist = Store(@, cl[c].pin, AfterReturn(@, cl[c].pin,
                                     cl[c].init = 0 /\ cl[c].started # 0))]
  /\ UNCHANGED <<pin_pass, chip_FD, registry, th, fds>>

\* ------------------------------------------- wait_for_interrupt_to_close
\* values a load past the end of a table can yield
GarbageFd == {-1, 0}
GarbageFn == {NULL, Handler}
GarbageFlag == {0, 1}
GarbageThread == {0}

\* pthread_cancel( isr_threads[pin] ): the request stays pending until the
\* target reaches a cancellation point
CancelThread(base, tid) ==
  IF tid \in Threads /\ base[tid].pc \notin {"none", "done", "cancelled"}
  THEN [base EXCEPT ![tid].cancel = TRUE] ELSE base

\* close( pin_FDs[pin] )
CloseFd(fd) ==
  IF fd \in FDs /\ fds[fd].kind # "free" THEN [fds EXCEPT ![fd] = FreeFd] ELSE fds

\* "if ( pin_FDs[pin] > 0 )": the teardown touches the thread and the
\* descriptor only then
HasDescriptor(fd) == fd > 0

\* the reset stores applied to every pin's entry instead of one
ResetEntry_AllPins(pin) ==
  /\ pin_FDs' = [q \in DOMAIN pin_FDs |-> -1]
  /\ isr_functions' = [q \in DOMAIN isr_functions |-> NULL]
  /\ isr_function_called' = [q \in DOMAIN isr_function_called |-> 1]

\* the three stores that end wait_for_interrupt_to_close
ResetEntry(pin) ==
  /\ pin_FDs' = Store(pin_FDs, pin, -1)
  /\ isr_functions' = Store(isr_functions, pin, NULL)
  /\ isr_function_called' = Store(isr_function_called, pin, 1)

\* wait_for_interrupt_to_close( pin ) called from an application thread
Close(c, p) ==
  /\ Running
  /\ MayCall(c)
  /\ env.run.close
  /\ p \in env.run.pins
  /\ \E fd \in Load(pin_FDs, p, GarbageFd), tid \in Load(isr_threads, p, GarbageThread) :
       /\ IF HasDescriptor(fd)
          THEN /\ th' = Disturb(CancelThread(th, tid), p)
               /\ fds' = CloseFd(fd)
               /\ \E crash \in (IF tid \in Threads THEN {FALSE} ELSE {FALSE, TRUE}) :
                    env' = [env EXCEPT !.oob = @ \/ p \notin Pins,
                                       !.crashed = crash,
                                       !.cancel = IF tid \in Threads THEN "ok" ELSE "failed",
                                       !.hist = Store(@, p, AfterClose(@, p))]
          ELSE /\ th' = Disturb(th, p)
               /\ UNCHANGED fds
               /\ env' = [env EXCEPT !.oob = @ \/ p \notin Pins,
                                     !.cancel = "none",
                                     !.hist = Store(@, p, AfterClose(@, p))]
  /\ ResetEntry(p)
  /\ cl' = [cl EXCEPT ![c] = [NoCaller EXCEPT !.pin = p, !.last = "close", !.ret = 0,
                                              !.calls = cl[c].calls + 1]]
  /\ UNCHANGED <<pin_pass, pin_mutex, chip_FD, isr_threads, isr_modes>>

\* --------------------------------------------- interrupt_handler (thread)
\* pin = pin_pass;
Capture(t) ==
  /\ Running
  /\ th[t].pc = "capture"
  /\ th' = [th EXCEPT ![t].pin = pin_pass, ![t].pc = "clear"]
  /\ UNCHANGED <<pin_pass, pin_mutex, chip_FD, registry, cl, fds, env>>

\* pin_pass = -1;
ClearPass(t) ==
  /\ Running
  /\ th[t].pc = "clear"
  /\ pin_pass' = -1
  /\ th' = [th EXCEPT ![t].pc = "wfi"]
  /\ UNCHANGED <<pin_mutex, chip_FD, registry, cl, fds, env>>

\* wait_for_interrupt: "if ( ( fd = pin_FDs[pin] ) == -1 ) return -2;"
LoadFd(t) ==
  /\ Running
  /\ th[t].pc = "wfi"
  /\ \E fd \in Load(pin_FDs, th[t].pin, GarbageFd) :
       th' = [th EXCEPT ![t].fd = fd, ![t].lastRead = "none", ![t].lastId = 0,
                        ![t].fired = FALSE,
                        ![t].ret = IF fd = -1 THEN -2 ELSE 0,
                        ![t].pc = IF fd = -1 THEN "disp" ELSE "poll"]
  /\ UNCHANGED <<pin_pass, pin_mutex, chip_FD, registry, cl, fds, env>>

\* what poll( &polls, 1, -1 ) can return for a descriptor: 1 when it is
\* readable or invalid (POLLNVAL), -1 when poll itself fails
PollResults(fd) ==
  (IF MayFail THEN {-1} ELSE {})
  \cup (IF fds[fd].kind = "line" /\ fds[fd].q = <<>> THEN {} ELSE {1})

Poll(t) ==
  /\ Running
  /\ th[t].pc = "poll"
  /\ ~th[t].cancel
  /\ th[t].fd \in FDs
  /\ \E r \in PollResults(th[t].fd) :
       /\ th' = [th EXCEPT ![t].ret = r, ![t].fd = -2,
                           ![t].pc = IF r <= 0 THEN "disp" ELSE "read"]
       /\ env' = [env EXCEPT !.faults = IF r < 0 THEN @ + 1 ELSE @]
  /\ UNCHANGED <<pin_pass, pin_mutex, chip_FD, registry, cl, fds>>

\* what read( pin_FDs[pin], &event_data, sizeof(event_data) ) can return:
\* pairs <<bytes read, id field of the record>>
ReadResults(g) ==
  IF g \in FDs /\ fds[g].kind = "line" /\ fds[g].q # <<>>
    THEN {<<EventSize, Head(fds[g].q)>>}
  ELSE IF g \in FDs /\ fds[g].kind = "std"
    THEN {<<0, 0>>} \cup (IF env.events < env.run.events
                          THEN {<<EventSize, RisingId>>, <<EventSize, FallingId>>}
                          ELSE {})
  ELSE {<<-1, 0>>}

\* the read result left out of the return value: ret keeps poll's 1
ReadRet_KeepsPoll(readret, id) == IF readret = EventSize THEN id ELSE 1

\* the value wait_for_interrupt returns after the read
ReadRet(readret, id) == IF readret = EventSize THEN id ELSE 0

\* "if ( ret == 1 ) isr_function_called[pin] = 1;" after a full read
Rearms(readret, id) == readret = EventSize /\ id = RisingId

Read(t) ==
  /\ Running
  /\ th[t].pc = "read"
  /\ ~th[t].cancel
  /\ \E g \in Load(pin_FDs, th[t].pin, GarbageFd) : \E r \in ReadResults(g) :
       LET full == r[1] = EventSize IN
       /\ th' = [th EXCEPT ![t].ret = ReadRet(r[1], r[2]),
                           ![t].pc = "disp",
                           ![t].nread = IF full THEN @ + 1 ELSE @,
                           ![t].lastRead = IF full THEN "full" ELSE "short",
                           ![t].lastId = IF full THEN r[2] ELSE 0,
                           ![t].fired = FALSE]
       /\ fds' = IF full /\ fds[g].kind = "line"
                 THEN [fds EXCEPT ![g].q = Tail(@)] ELSE fds
       /\ env' = [env EXCEPT !.events = IF full /\ fds[g].kind = "std" THEN @ + 1 ELSE @,
                             !.oob = @ \/ (Rearms(r[1], r[2]) /\ th[t].pin \notin Pins)]
       /\ isr_function_called' =
            IF Rearms(r[1], r[2]) THEN Store(isr_function_called, th[t].pin, 1)
            ELSE isr_function_called
  /\ UNCHANGED <<pin_pass, pin_mutex, chip_FD, pin_FDs, isr_functions,
                 isr_threads, isr_modes, cl>>

\* a pending cancellation request acts when the thread is in poll or read
Cancelled(t) ==
  /\ Running
  /\ th[t].pc \in {"poll", "read"}
  /\ th[t].cancel
  /\ th' = [th EXCEPT ![t] = Ended(@, "cancelled")]
  /\ UNCHANGED <<pin_pass, pin_mutex, chip_FD, registry, cl, fds, env>>

\* interrupt_handler: the branch on ret and the two tests guarding the call
Dispatch(t) ==
  /\ Running
  /\ th[t].pc = "disp"
  /\ \E f \in Load(isr_functions, th[t].pin, GarbageFn),
        a \in Load(isr_function_called, th[t].pin, GarbageFlag) :
       th' = [th EXCEPT ![t].ret = 0, ![t].pc =
                IF th[t].ret > 0 THEN (IF f # NULL /\ a # 0 THEN "call" ELSE "wfi")
                ELSE IF th[t].ret < 0 THEN "cleanup"
                ELSE "wfi"]
  /\ UNCHANGED <<pin_pass, pin_mutex, chip_FD, registry, cl, fds, env>>

\* isr_functions[pin]();  the slot is loaded again for the call
Call(t) ==
  /\ Running
  /\ th[t].pc = "call"
  /\ \E f \in Load(isr_functions, th[t].pin, GarbageFn) :
       IF f = NULL
       THEN /\ env' = [env EXCEPT !.crashed = TRUE]
            /\ UNCHANGED th
       ELSE /\ th' = [th EXCEPT ![t].pc = "disarm", ![t].ncall = @ + 1,
                                ![t].fired = TRUE]
            /\ UNCHANGED env
  /\ UNCHANGED <<pin_pass, pin_mutex, chip_FD, registry, cl, fds>>

\* isr_function_called[pin] = 0;
Disarm(t) ==
  /\ Running
  /\ th[t].pc = "disarm"
  /\ isr_function_called' = Store(isr_function_called, th[t].pin, 0)
  /\ th' = [th EXCEPT ![t].pc = "wfi"]
  /\ env' = [env EXCEPT !.oob = @ \/ th[t].pin \notin Pins]
  /\ UNCHANGED <<pin_pass, pin_mutex, chip_FD, pin_FDs, isr_functions,
                 isr_threads, isr_modes, cl, fds>>

\* wait_for_interrupt_to_close( pin ) run by the thread itself after the
\* loop; close() is a cancellation point, so a thread that has a request
\* pending (its own included) ends there, before the descriptor is closed
Cleanup(t) ==
  /\ Running
  /\ th[t].pc = "cleanup"
  /\ \E fd \in Load(pin_FDs, th[t].pin, GarbageFd),
        tid \in Load(isr_threads, th[t].pin, GarbageThread) :
       IF HasDescriptor(fd)
       THEN LET after == CancelThread(th, tid) IN
            IF after[t].cancel
            THEN /\ th' = [after EXCEPT ![t] = Ended(@, "cancelled")]
                 /\ UNCHANGED <<pin_FDs, isr_functions, isr_function_called, fds, env>>
            ELSE /\ th' = Disturb([after EXCEPT ![t] = Ended(@, "done")], th[t].pin)
                 /\ fds' = CloseFd(fd)
                 /\ ResetEntry(th[t].pin)
                 /\ \E crash \in (IF tid \in Threads THEN {FALSE} ELSE {FALSE, TRUE}) :
                      env' = [env EXCEPT !.crashed = crash,
                                         !.oob = @ \/ th[t].pin \notin Pins]
       ELSE /\ th' = Disturb([th EXCEPT ![t] = Ended(@, "done")], th[t].pin)
            /\ ResetEntry(th[t].pin)
            /\ env' = [env EXCEPT !.oob = @ \/ th[t].pin \notin Pins]
            /\ UNCHANGED fds
  /\ UNCHANGED <<pin_pass, pin_mutex, chip_FD, isr_threads, isr_modes, cl>>

\* ------------------------------------------------------------ environment
\* the edge kinds a line requested in mode m reports
EdgeIds(m) == CASE m = "RISING_EDGE" -> {RisingId}
                [] m = "FALLING_EDGE" -> {FallingId}
                [] m = "BOTH_EDGE" -> {RisingId, FallingId}
                [] OTHER -> {}

\* the kernel queues one event record on a requested line
EdgeEvent(f, id) ==
  /\ Running
  /\ fds[f].kind = "line"
  /\ id \in EdgeIds(fds[f].mode)
  /\ Len(fds[f].q) < MaxQueue
  /\ env.events < env.run.events
  /\ fds' = [fds EXCEPT ![f].q = Append(@, id)]
  /\ env' = [env EXCEPT !.events = @ + 1]
  /\ UNCHANGED <<pin_pass, pin_mutex, chip_FD, registry, cl, th>>

Next ==
  \/ \E c \in Callers, p \in Pins \cup {BadPin}, m \in Modes : ISRStore(c, p, m)
  \/ \E c \in Callers : InitChip(c)
  \/ \E c \in Callers : InitOpen(c)
  \/ \E c \in Callers : InitLine(c)
  \/ \E c \in Callers : ISRLock(c)
  \/ \E c \in Callers : ISRCreate(c)
  \/ \E c \in Callers : ISRWait(c)
  \/ \E c \in Callers : ISRReturn(c)
  \/ \E c \in Callers, p \in Pins \cup {BadPin} : Close(c, p)
  \/ \E t \in Threads : Capture(t)
  \/ \E t \in Threads : ClearPass(t)
  \/ \E t \in Threads : LoadFd(t)
  \/ \E t \in Threads : Poll(t)
  \/ \E t \in Threads : Read(t)
  \/ \E t \in Threads : Cancelled(t)
  \/ \E t \in Threads : Dispatch(t)
  \/ \E t \in Threads : Call(t)
  \/ \E t \in Threads : Disarm(t)
  \/ \E t \in Threads : Cleanup(t)
  \/ \E f \in FDs, id \in {RisingId, FallingId} : EdgeEvent(f, id)

Spec == Init /\ [][Next]_vars

\* ================================================================ claims
\* a thread that can still take a step of its own (a thread blocked in
\* poll or read with a cancellation request pending can only end)
Active(t) == Live(t) /\ ~(th[t].cancel /\ th[t].pc \in {"poll", "read"})

\* thread t is the dispatch thread of an intact registration of its pin:
\* the call that created it has not been followed by a teardown or another
\* registration, the pin's descriptor is its open line-event descriptor, and
\* no other thread serves the pin
Serving(t) ==
  /\ Live(t)
  /\ th[t].clean
  /\ th[t].pin \in Pins
  /\ th[t].pin = th[t].forPin
  /\ isr_threads[th[t].pin] = t
  /\ env.hist[th[t].pin] \in {"registering", "registered"}
  /\ isr_functions[th[t].pin] # NULL
  /\ pin_FDs[th[t].pin] \in FDs
  /\ fds[pin_FDs[th[t].pin]].kind = "line"
  /\ fds[pin_FDs[th[t].pin]].pin = th[t].pin
  /\ \A u \in Threads \ {t} : Live(u) => u # t /\ th[u].forPin # th[t].pin

\* C1: every full-size record read on a registered pin's descriptor gives
\* exactly one callback invocation: whenever the dispatch thread is back at
\* the top of its loop it has invoked the callback as many times as it has
\* read records
C1_OneCallPerRecord ==
  \A t \in Threads :
    (Serving(t) /\ th[t].pc = "wfi") => th[t].ncall = th[t].nread

\* C2: on a pin registered for falling or both edges, a fully read
\* falling-edge record (id 2) has led to a callback invocation by the time
\* the dispatch thread is back at the top of its loop
C2_FallingEdgeFires ==
  \A t \in Threads :
    (/\ Serving(t)
     /\ th[t].pc = "wfi"
     /\ isr_modes[th[t].pin] \in {"FALLING_EDGE", "BOTH_EDGE"}
     /\ th[t].lastRead = "full"
     /\ th[t].lastId = FallingId) => th[t].fired

\* the state teardown is meant to leave a pin in
Unregistered(p) ==
  /\ pin_FDs[p] = -1
  /\ isr_functions[p] = NULL
  /\ isr_function_called[p] = 1
  /\ ~LineHeld(p)

\* C3: once a registration of a pin has been followed by
\* wait_for_interrupt_to_close, the pin's entry is Unregistered (descriptor
\* -1 and closed, callback NULL, armed flag 1) and no dispatch thread of
\* that pin can still run
C3_TeardownLeavesUnregistered ==
  \A p \in Pins :
    env.hist[p] = "closed" =>
      /\ Unregistered(p)
      /\ \A t \in Threads : th[t].forPin = p => ~Active(t)

\* C4: in every reachable state a pin has at most one open event descriptor
\* and at most one running dispatch thread, also when jakestering_ISR is
\* called twice on the pin
C4_OneThreadPerPin ==
  \A p \in Pins :
    /\ Cardinality({f \in FDs : fds[f].kind = "line" /\ fds[f].pin = p}) <= 1
    /\ Cardinality({t \in Threads : Active(t) /\ th[t].forPin = p}) <= 1

\* C5: wait_for_interrupt_to_close on a pin that was never registered
\* changes no registry field, thread or descriptor, and returns a result
\* other than the 0 a successful teardown returns
C5_CloseUnregisteredNoop ==
  [][\A c \in Callers :
       (/\ cl[c].pc = "idle"
        /\ cl'[c].pc = "idle"
        /\ cl'[c].last = "close"
        /\ cl'[c].calls = cl[c].calls + 1
        /\ cl'[c].pin \in Pins
        /\ env.hist[cl'[c].pin] = "never")
       => (UNCHANGED <<registry, th, fds>> /\ cl'[c].ret # 0)]_vars

\* C6: a read that returns fewer bytes than one record changes neither the
\* armed flag nor the callback count, and the dispatch loop goes back to
\* waiting without invoking the callback
C6_ShortReadIgnored ==
  [][\A t \in Threads :
       /\ (th[t].pc = "read" /\ th'[t].pc = "disp" /\ th'[t].lastRead = "short")
            => (/\ isr_function_called' = isr_function_called
                /\ th'[t].ncall = th[t].ncall)
       /\ (th[t].pc = "disp" /\ th[t].lastRead = "short" /\ th'[t].pc # "disp")
            => (/\ th'[t].pc = "wfi"
                /\ isr_function_called' = isr_function_called
                /\ th'[t].ncall = th[t].ncall)]_vars

\* a dispatch thread is back at the top of its loop after a short read on
\* a pin whose callback is set and armed
C6_Witness ==
  \E t \in Threads :
    /\ th[t].pc = "wfi"
    /\ th[t].lastRead = "short"
    /\ th[t].pin \in Pins
    /\ isr_functions[th[t].pin] # NULL
    /\ isr_function_called[th[t].pin] = 1

InHandshake(c) == cl[c].pc \in {"isr_create", "isr_wait", "isr_unlock"}

\* C7: every dispatch thread that has read pin_pass holds the pin it was
\* started for, the token is written and awaited only by the holder of
\* pin_mutex, and at most one registration is in the handshake at a time
C7_HandshakeCaptures ==
  /\ \A t \in Threads :
       th[t].pc \notin {"none", "capture"} => th[t].pin = th[t].forPin
  /\ \A c \in Callers : InHandshake(c) => pin_mutex = c
  /\ Cardinality({c \in Callers : InHandshake(c)}) <= 1

\* one registration has completed its handshake, its thread holding the
\* right pin, while a concurrent registration of another pin waits for the
\* mutex
C7_Witness ==
  \E c \in Callers, d \in Callers :
    /\ c # d
    /\ cl[c].pc = "isr_unlock"
    /\ cl[c].started \in Threads
    /\ th[cl[c].started].pc \notin {"none", "capture"}
    /\ th[cl[c].started].pin = cl[c].pin
    /\ cl[d].pc = "isr_lock"
    /\ cl[d].pin # cl[c].pin

\* C8: on a registered pin the armed flag is 1 until the first record is
\* read; whenever the dispatch thread is back at the top of its loop after
\* n >= 1 records the flag is 0 and the callback has run n times
C8_ArmedAlternates ==
  \A t \in Threads :
    (Serving(t) /\ th[t].pc = "wfi") =>
      IF th[t].nread = 0
      THEN isr_function_called[th[t].pin] = 1 /\ th[t].ncall = 0
      ELSE isr_function_called[th[t].pin] = 0 /\ th[t].ncall = th[t].nread

\* C9: a jakestering_ISR call with a pin outside 0..31 writes nothing (no
\* store past the tables), requests no line, creates no thread, leaves
\* pin_pass alone and returns a failure
C9_InvalidPinRejected ==
  \A c \in Callers :
    (cl[c].pin \notin 0..(NumPins - 1) /\ (cl[c].pc # "idle" \/ cl[c].last = "isr")) =>
      /\ ~env.oob
      /\ pin_pass = -1
      /\ \A t \in Threads : th[t].pc = "none"
      /\ \A f \in FDs : fds[f].kind # "line"
      /\ cl[c].last = "isr" => cl[c].ret < 0

\* C10: a jakestering_ISR call whose interrupt_init failed has returned a
\* failure, left the pin's callback and descriptor unset and started no
\* dispatch thread
C10_InitFailureRolledBack ==
  \A c \in Callers :
    (cl[c].pc = "idle" /\ cl[c].last = "isr" /\ cl[c].init < 0 /\ cl[c].pin \in Pins) =>
      /\ cl[c].ret < 0
      /\ isr_functions[cl[c].pin] = NULL
      /\ pin_FDs[cl[c].pin] = -1
      /\ cl[c].started = 0

\* C11: a jakestering_ISR call in which pthread_create failed (after
\* interrupt_init succeeded) has returned a failure, left the pin's entry
\* Unregistered (callback NULL, descriptor -1 and closed) and released
\* pin_mutex
C11_CreateFailureRolledBack ==
  \A c \in Callers :
    (/\ cl[c].pc = "idle"
     /\ cl[c].last = "isr"
     /\ cl[c].init = 0
     /\ cl[c].started = 0
     /\ cl[c].pin \in Pins) =>
      /\ cl[c].ret < 0
      /\ isr_functions[cl[c].pin] = NULL
      /\ pin_FDs[cl[c].pin] = -1
      /\ ~LineHeld(cl[c].pin)
      /\ pin_mutex # c

\* C12: a step of interrupt_init that ends in failure leaves no line
\* descriptor open that was not open before, and the pin's slot does not
\* hold a descriptor obtained in that step
C12_NonblockFailureCloses ==
  [][\A c \in Callers :
       (/\ cl[c].pc = "init_line"
        /\ cl'[c].pc = "isr_lock"
        /\ cl'[c].init < 0
        /\ cl[c].pin \in Pins)
       => /\ \A f \in FDs : fds'[f].kind = "line" => fds[f].kind = "line"
          /\ pin_FDs'[cl[c].pin] \in {-1, pin_FDs[cl[c].pin]}]_vars

\* C13: every execution of wait_for_interrupt_to_close on a pin whose slot
\* holds a descriptor (pin_FDs[pin] > 0), from an application thread or from
\* the dispatch thread's own exit path, ends with that descriptor closed and
\* the entry reset (descriptor -1, callback NULL, armed flag 1), whatever
\* pthread_cancel returned
C13_CloseReleasesDescriptor ==
  [][LET Released(p) == /\ fds'[pin_FDs[p]].kind = "free"
                        /\ pin_FDs'[p] = -1
                        /\ isr_functions'[p] = NULL
                        /\ isr_function_called'[p] = 1
     IN /\ \A c \in Callers :
             (/\ cl[c].pc = "idle"
              /\ cl'[c].pc = "idle"
              /\ cl'[c].last = "close"
              /\ cl'[c].calls = cl[c].calls + 1
              /\ cl'[c].pin \in Pins
              /\ HasDescriptor(pin_FDs[cl'[c].pin])) => Released(cl'[c].pin)
        /\ \A t \in Threads :
             (/\ th[t].pc = "cleanup"
              /\ th'[t].pc # "cleanup"
              /\ th[t].pin \in Pins
              /\ HasDescriptor(pin_FDs[th[t].pin])) => Released(th[t].pin)]_vars

\* C14: the GPIO controller device is opened successfully at most once, at
\* most one descriptor of it is open, and once it has been opened chip_FD
\* holds that descriptor
C14_ChipOpenedOnce ==
  /\ env.chipOpens <= 1
  /\ Cardinality({f \in FDs : fds[f].kind = "chip"}) <= 1
  /\ env.chipOpens = 1 => (chip_FD \in FDs /\ fds[chip_FD].kind = "chip")

\* C15: whenever no application thread is inside jakestering_ISR or
\* wait_for_interrupt_to_close and no dispatch thread is about to run its
\* own teardown, a pin has a dispatch thread that can still run if and only
\* if its slot holds an open line-event descriptor
C15_ThreadIffDescriptor ==
  (/\ Running
   /\ \A c \in Callers : cl[c].pc = "idle"
   /\ \A t \in Threads : th[t].pc # "cleanup") =>
    \A p \in Pins :
      (\E t \in Threads : Active(t) /\ th[t].forPin = p)
        <=> (pin_FDs[p] \in FDs /\ fds[pin_FDs[p]].kind = "line")

\* the steps an application thread takes inside jakestering_ISR once it has
\* entered, and the two steps a new dispatch thread takes before its loop
CallerStep(c) ==
  \/ InitChip(c) \/ InitOpen(c) \/ InitLine(c)
  \/ ISRLock(c) \/ ISRCreate(c) \/ ISRWait(c) \/ ISRReturn(c)
HandshakeStep(t) == Capture(t) \/ ClearPass(t)

\* the scheduler lets every thread that can take a step take it eventually
Fairness ==
  /\ \A c \in Callers : WF_vars(CallerStep(c))
  /\ \A t \in Threads : WF_vars(HandshakeStep(t))

FairSpec == Init /\ [][Next]_vars /\ Fairness

C17_ThreadWritesOwnEntry ==
  [][\A t \in Threads :
       (/\ Live(t)
        /\ th'[t].pc # th[t].pc
        /\ th[t].pin \in Pins)
       => /\ \A q \in Pins \ {th[t].pin} :
               /\ pin_FDs'[q] = pin_FDs[q]
               /\ isr_functions'[q] = isr_functions[q]
               /\ isr_modes'[q] = isr_modes[q]
               /\ isr_function_called'[q] = isr_function_called[q]
               /\ isr_threads'[q] = isr_threads[q]
          /\ \A f \in FDs :
               (fds[f].kind = "line" /\ fds[f].pin # th[t].pin) => fds'[f] = fds[f]
          /\ \A u \in Threads :
               (Live(u) /\ th[u].forPin # th[t].pin) => th'[u] = th[u]
          /\ th[t].pc = "cleanup" => env'.crashed = env.crashed]_vars

\* a dispatch thread has run its own cleanup to the end while another pin
\* has an intact registration with its dispatch thread running
C17_Witness ==
  \E t \in Threads, u \in Threads :
    /\ th[t].pc = "done"
    /\ th[t].pin \in Pins
    /\ Serving(u)
    /\ Active(u)
    /\ th[u].pin # th[t].pin

\* C18: when pin p has been registered, torn down and registered again, a
\* dispatch thread of the earlier registration that runs its own cleanup
\* changes neither the descriptor slot nor the callback of p, closes no
\* descriptor and requests no cancellation of another thread
C18_OldThreadSparesNew ==
  [][\A t \in Threads, c \in Callers :
       (/\ th[t].pc = "cleanup"
        /\ th'[t].pc # "cleanup"
        /\ th[t].pin \in Pins
        /\ cl[c].pin = th[t].pin
        /\ (cl[c].pc # "idle" \/ cl[c].last = "isr")
        /\ env.hist[th[t].pin] \in {"registering", "registered"}
        /\ cl[c].started # t)
       => /\ pin_FDs'[th[t].pin] = pin_FDs[th[t].pin]
          /\ isr_functions'[th[t].pin] = isr_functions[th[t].pin]
          /\ fds' = fds
          /\ \A u \in Threads \ {t} : th'[u].cancel = th[u].cancel]_vars

\* C19: the call statement of a dispatch thread of a pin in 0..31 never
\* goes through an unset slot: no step taken by a thread standing between
\* the test of isr_functions[pin] and the call ends the process
C19_NeverCallsNull ==
  [][\A t \in Threads :
       (/\ th[t].pc = "call"
        /\ th[t].pin \in Pins
        /\ isr_functions[th[t].pin] = NULL
        /\ UNCHANGED <<cl, th, fds>>) => ~env'.crashed]_vars

\* C20: a dispatch thread started for a pin whose registration obtained no
\* descriptor finds the unset sentinel in the pin's slot, the state every
\* pin starts in, and leaves through the -2 result: no dispatch thread is
\* ever in poll on a descriptor that is not a line-event descriptor, such
\* as the process's descriptor 0
C20_InitialUnregistered ==
  \A t \in Threads :
    (th[t].pc = "poll" /\ th[t].fd \in FDs) => fds[th[t].fd].kind # "std"
====
